---- MODULE Spec2Model ----
(***************************************************************************)
(* A model of the dvr / go-gob-http snapshot codec:                        *)
(*   - the error wrapper gobError (GobEncode / GobDecode), the registry    *)
(*     encodableTypes and RegisterErrorType;                               *)
(*   - the request / response wrappers newGobRequest / newGobResponse and  *)
(*     gobQuery.RequestResponse.                                           *)
(* Go values are modelled by records.  An error value is                   *)
(*   [typ |-> id of the base type, shape |-> "val" | "ptr" | "nilptr",     *)
(*    msg |-> what Error() returns]                                        *)
(* and the nil interface is NilError.  A gob stream is a sequence of       *)
(* messages (a type definition, a value, or bytes that are no message).    *)
(***************************************************************************)
EXTENDS Integers, Sequences, FiniteSets, TLC

VARIABLES
    encodableTypes,  \* the registry: ids marked known-safe (map name -> bool)
    gobTypes,        \* encoding/gob's table of registered concrete types
    peerEncodable,   \* encodableTypes of a second process linking the codec
    peerGob,         \* gob's table in that second process
    sent,            \* the most recent GobEncode call: receiver, outcome, bytes
    call,            \* the most recent call of the codec, with its outcome
    live,            \* the live request and response handed to the wrappers
    snap,            \* what newGobRequest / newGobResponse last returned
    gq,              \* the gobQuery under reconstruction
    rr,              \* the outcome of the last gobQuery.RequestResponse
    heap             \* the maps, slices and TLS states that values point to

vars == <<encodableTypes, gobTypes, peerEncodable, peerGob, sent, call,
          live, snap, gq, rr, heap>>

codecVars == <<encodableTypes, gobTypes, peerEncodable, peerGob, sent, call>>
queryVars == <<live, snap, gq, rr, heap>>

----------------------------------------------------------------------------
(* Bounds of the model *)

\* messages are 0..MaxMsg; 0 stands for the empty string
MaxMsg == 1
\* the longest gob stream handed to GobDecode as arbitrary bytes, in messages
MaxStream == 2
\* live requests and responses carry the sample values 0..MaxSample in
\* their fields; 0 stands for the zero value of every field
MaxSample == 1

Msgs == 0..MaxMsg

----------------------------------------------------------------------------
(* Error types.  The id is what fmt.Sprintf("%s.%s", PkgPath, Name) gives. *)

gobSafeError == "github.com/orchestrate-io/dvr.gobSafeError"
customError == "github.com/orchestrate-io/dvr.customError"
errorString == "errors.errorString"
ProtocolError == "net/http.ProtocolError"
DNSError == "net.DNSError"
PublicKey == "crypto/rsa.PublicKey"

\* the ids init() registers (net.DNSError is registered twice there)
InitErrorTypes ==
    { gobSafeError, ProtocolError, "net.AddrError", "net.DNSConfigError",
      DNSError, "net.InvalidAddrError", "net.OpError", "net.ParseError",
      "net.UnknownNetworkError", "net/url.Error", "net/url.EscapeError" }

\* the other objects init() registers with gob; none of them is an error
InitOtherTypes == { PublicKey, "crypto/rsa.PrivateKey", "net.TCPAddr" }

\* the types error values are drawn from
ErrorTypes == { gobSafeError, customError, errorString, ProtocolError }

\* the types whose Error method has a value receiver: both T and *T are errors
ValueReceiver == { gobSafeError, customError }

\* struct types without exported fields: gob refuses to encode them
NoExportedFields == { errorString }

NilError == [typ |-> "", shape |-> "nil", msg |-> 0]

Shapes(t) == IF t \in ValueReceiver THEN {"val", "ptr"} ELSE {"ptr"}

\* the non-nil values of the error types
Values == { [typ |-> t, shape |-> s, msg |-> m] :
              t \in ErrorTypes, s \in {"val", "ptr"}, m \in Msgs }

LiveErrors == { e \in Values : e.shape \in Shapes(e.typ) }

\* a nil pointer of an error type, held in a non-nil interface
TypedNils == { [typ |-> t, shape |-> "nilptr", msg |-> 0] : t \in ErrorTypes }

\* every value of Go's type error that the model hands to the code
Errors == LiveErrors \cup TypedNils \cup {NilError}

----------------------------------------------------------------------------
(* reflect: the walk "for value.Kind() == Interface || Ptr { value =        *)
(* value.Elem() }".  reflect.ValueOf of a nil interface is the zero Value,  *)
(* and so is Elem() of a nil pointer; Type() of the zero Value panics.      *)

WalkIsValid(err) == err.shape \in {"val", "ptr"}

\* fmt.Sprintf("%s.%s", typ.PkgPath(), typ.Name()) of the walked-down value
TypeId(err) == err.typ

\* err.Error(): a nil pointer is dereferenced by the method (or by the
\* implicit *p of a value receiver), which panics
ErrorPanics(err) == err.shape \in {"nilptr", "nil"}
Message(err) == err.msg

----------------------------------------------------------------------------
(* encoding/gob, as far as the codec uses it.  gob.Register(v) with v of a  *)
(* pointer type *T records the name "*pkg.T" for T; an interface value is   *)
(* sent under the name recorded for its base type and decoded into a new    *)
(* value of the type recorded for that name, here always the pointer *T.    *)

GobName(t) == <<"*", t>>

TypeDef == [k |-> "typedef", name |-> <<>>, msg |-> 0, flag |-> FALSE]
Junk == [k |-> "junk", name |-> <<>>, msg |-> 0, flag |-> FALSE]
ValueMsg(n, m, f) == [k |-> "value", name |-> n, msg |-> m, flag |-> f]

\* type gobRawError struct { Error error; ErrorsErrorString bool }
gobRawError(e, f) == [Error |-> e, ErrorsErrorString |-> f]

\* encoder.Encode(&rawError): the type definition of gobRawError is written
\* first; the interface field then needs a registered, encodable type
EncoderEncode(gob, raw) ==
    IF raw.Error = NilError
    THEN [err |-> FALSE,
          bytes |-> <<TypeDef, ValueMsg(<<>>, 0, raw.ErrorsErrorString)>>]
    ELSE IF raw.Error.typ \notin gob \/ raw.Error.typ \in NoExportedFields
    THEN [err |-> TRUE, bytes |-> <<TypeDef>>]
    ELSE [err |-> FALSE,
          bytes |-> <<TypeDef, ValueMsg(GobName(raw.Error.typ),
                                        raw.Error.msg,
                                        raw.ErrorsErrorString)>>]

\* decoder.Decode(&rawError): one type definition, then one value; what
\* follows the value stays unread.  A name gob does not know, or one of a
\* type that is no error, is a decode error.
DecoderDecode(gob, data) ==
    IF Len(data) < 2 \/ data[1] # TypeDef \/ data[2].k # "value"
    THEN [err |-> TRUE, raw |-> gobRawError(NilError, FALSE)]
    ELSE IF data[2].name = <<>>
    THEN [err |-> FALSE, raw |-> gobRawError(NilError, data[2].flag)]
    ELSE IF \E t \in gob \ InitOtherTypes : GobName(t) = data[2].name
    THEN [err |-> FALSE,
          raw |-> gobRawError(
                    [typ |-> (CHOOSE t \in gob \ InitOtherTypes :
                                       GobName(t) = data[2].name),
                     shape |-> "ptr", msg |-> data[2].msg],
                    data[2].flag)]
    ELSE [err |-> TRUE, raw |-> gobRawError(NilError, FALSE)]

----------------------------------------------------------------------------
(* func init() *)

init_encodableTypes == InitErrorTypes
init_gobTypes == InitErrorTypes \cup InitOtherTypes

(* func RegisterErrorType(err error): the registry and gob's table after    *)
(* the call, and whether it returned or panicked.  gob.Register runs only   *)
(* inside the loop, so only while the value is a pointer.                   *)
RegisterErrorTypeResult(enc, gob, err) ==
    LET registered == IF err.shape \in {"ptr", "nilptr"}
                      THEN gob \cup {err.typ} ELSE gob
    IN  IF WalkIsValid(err)
        THEN [out |-> "ok", enc |-> enc \cup {TypeId(err)}, gob |-> registered]
        ELSE [out |-> "panic", enc |-> enc, gob |-> registered]

\* SafePayload with the downgrade left out
SafePayloadNoFallback(enc, e) == e

\* SafePayload with a downgrade that loses the message
SafePayloadDropsMessage(enc, e) ==
    IF TypeId(e) \in enc
    THEN e
    ELSE [typ |-> gobSafeError, shape |-> "val", msg |-> 0]

\* rawError.Error: the value itself when its id is in the registry,
\* gobSafeError(g.Error.Error()) otherwise
SafePayload(enc, e) ==
    IF TypeId(e) \in enc
    THEN e
    ELSE [typ |-> gobSafeError, shape |-> "val", msg |-> Message(e)]

(* func (g *gobError) GobEncode() ([]byte, error), with g.Error = e *)
GobEncodeResult(enc, gob, e) ==
    IF e = NilError
    THEN [out |-> "ok", bytes |-> <<>>]
    ELSE IF ~WalkIsValid(e)
    THEN [out |-> "panic", bytes |-> <<>>]
    ELSE LET raw == gobRawError(SafePayload(enc, e),
                                TypeId(e) = "errors.errorString")
             res == EncoderEncode(gob, raw)
         IN  [out |-> IF res.err THEN "error" ELSE "ok", bytes |-> res.bytes]

\* errors.New(text)
errorsNew(m) == [typ |-> errorString, shape |-> "ptr", msg |-> m]

\* GobDecode without "g.Error = nil" for zero-length data
GobDecodeKeepsError(gob, before, data) ==
    IF Len(data) = 0
    THEN [out |-> "ok", after |-> before, ran |-> FALSE]
    ELSE LET d == DecoderDecode(gob, data)
         IN  IF d.err
             THEN [out |-> "error", after |-> before, ran |-> TRUE]
             ELSE [out |-> "ok", ran |-> TRUE,
                   after |-> IF d.raw.ErrorsErrorString
                             THEN errorsNew(Message(d.raw.Error))
                             ELSE d.raw.Error]

(* func (g *gobError) GobDecode(data []byte) error, with g.Error = before:  *)
(* the outcome, g.Error afterwards, and whether decoder.Decode ran          *)
GobDecodeResult(gob, before, data) ==
    IF Len(data) = 0
    THEN [out |-> "ok", after |-> NilError, ran |-> FALSE]
    ELSE LET d == DecoderDecode(gob, data)
         IN  IF d.err
             THEN [out |-> "error", after |-> before, ran |-> TRUE]
             ELSE IF d.raw.ErrorsErrorString
             THEN IF ErrorPanics(d.raw.Error)
                  THEN [out |-> "panic", after |-> before, ran |-> TRUE]
                  ELSE [out |-> "ok", ran |-> TRUE,
                        after |-> errorsNew(Message(d.raw.Error))]
             ELSE [out |-> "ok", after |-> d.raw.Error, ran |-> TRUE]

----------------------------------------------------------------------------
(* The calls of the codec.  A panic is recovered by the caller, as the      *)
(* tests do, and the process goes on.                                       *)

NoCall == [op |-> "none", arg |-> NilError, data |-> <<>>,
           before |-> NilError, after |-> NilError, out |-> "none",
           ran |-> FALSE]

NotSent == [err |-> NilError, known |-> FALSE, out |-> "none", bytes |-> <<>>]

\* what the receiver's Error field holds before a GobDecode
Befores == { NilError, [typ |-> customError, shape |-> "val", msg |-> MaxMsg] }

\* RegisterErrorType(err) in this process
RegisterErrorType(err) ==
    LET r == RegisterErrorTypeResult(encodableTypes, gobTypes, err)
    IN  /\ encodableTypes' = r.enc
        /\ gobTypes' = r.gob
        /\ call' = [NoCall EXCEPT !.op = "register", !.arg = err, !.out = r.out]
        /\ UNCHANGED <<peerEncodable, peerGob, sent, queryVars>>

\* (&gobError{Error: e}).GobEncode() in this process
GobEncode(e) ==
    LET r == GobEncodeResult(encodableTypes, gobTypes, e)
    IN  /\ sent' = [err |-> e,
                    known |-> WalkIsValid(e) /\ TypeId(e) \in encodableTypes,
                    out |-> r.out, bytes |-> r.bytes]
        /\ call' = [NoCall EXCEPT !.op = "encode", !.arg = e,
                                  !.data = r.bytes, !.out = r.out]
        /\ UNCHANGED <<encodableTypes, gobTypes, peerEncodable, peerGob,
                       queryVars>>

\* (&gobError{Error: before}).GobDecode(data) against the gob table `gob`
Decode(op, gob, before, data) ==
    LET r == GobDecodeResult(gob, before, data)
    IN  /\ call' = [op |-> op, arg |-> NilError, data |-> data,
                    before |-> before, after |-> r.after, out |-> r.out,
                    ran |-> r.ran]
        /\ UNCHANGED <<encodableTypes, gobTypes, peerEncodable, peerGob,
                       sent, queryVars>>

\* GobDecode, in this process, of the bytes the last GobEncode returned
GobDecode(before) ==
    /\ sent.out \in {"ok", "error"}
    /\ Decode("decode", gobTypes, before, sent.bytes)

CodecInit ==
    /\ encodableTypes = init_encodableTypes
    /\ gobTypes = init_gobTypes
    /\ peerEncodable = init_encodableTypes
    /\ peerGob = init_gobTypes
    /\ sent = NotSent
    /\ call = NoCall

----------------------------------------------------------------------------
(* net/url, as far as the wrappers use it.  A string is a sequence of       *)
(* characters; a URL is [Scheme, Opaque, Host, Path] (no user, query or     *)
(* fragment).  The characters are letters, ":" and "/", so nothing is       *)
(* escaped and no first path segment without a scheme holds a colon.        *)

Letters == {"h", "p"}

HasPrefix(s, pre) == Len(s) >= Len(pre) /\ SubSeq(s, 1, Len(pre)) = pre

\* strings.Index(s, "/") from position i on; 0 when there is none
RECURSIVE IndexSlash(_, _)
IndexSlash(s, i) ==
    IF i > Len(s) THEN 0
    ELSE IF s[i] = "/" THEN i
    ELSE IndexSlash(s, i + 1)

\* (u *URL) String()
URLString(u) ==
    LET scheme == IF u.Scheme # <<>> THEN u.Scheme \o <<":">> ELSE <<>>
        slashes == IF (u.Scheme # <<>> \/ u.Host # <<>>)
                      /\ (u.Host # <<>> \/ u.Path # <<>>)
                   THEN <<"/", "/">> ELSE <<>>
        sep == IF u.Path # <<>> /\ u.Path[1] # "/" /\ u.Host # <<>>
               THEN <<"/">> ELSE <<>>
    IN  IF u.Opaque # <<>>
        THEN scheme \o u.Opaque
        ELSE scheme \o slashes \o u.Host \o sep \o u.Path

\* getScheme(rawURL): (scheme, rest, err)
RECURSIVE getScheme(_, _)
getScheme(s, i) ==
    IF i > Len(s) THEN [scheme |-> <<>>, rest |-> s, err |-> FALSE]
    ELSE IF s[i] \in Letters THEN getScheme(s, i + 1)
    ELSE IF s[i] = ":"
    THEN IF i = 1
         THEN [scheme |-> <<>>, rest |-> <<>>, err |-> TRUE]
         ELSE [scheme |-> SubSeq(s, 1, i - 1),
               rest |-> SubSeq(s, i + 1, Len(s)), err |-> FALSE]
    ELSE [scheme |-> <<>>, rest |-> s, err |-> FALSE]

NoURL == [nil |-> FALSE,
          Scheme |-> <<>>, Opaque |-> <<>>, Host |-> <<>>, Path |-> <<>>]

\* a nil *url.URL
NilURL == [NoURL EXCEPT !.nil = TRUE]

\* url.Parse(rawURL): (url, err)
URLParse(s) ==
    LET g == getScheme(s, 1)
        rest == g.rest
    IN  IF g.err THEN [err |-> TRUE, url |-> NoURL]
        ELSE IF ~HasPrefix(rest, <<"/">>) /\ g.scheme # <<>>
        THEN [err |-> FALSE, url |-> [NoURL EXCEPT !.Scheme = g.scheme,
                                                   !.Opaque = rest]]
        ELSE IF (g.scheme # <<>> \/ ~HasPrefix(rest, <<"/", "/", "/">>))
                /\ HasPrefix(rest, <<"/", "/">>)
        THEN LET i == IndexSlash(rest, 3)
                 authority == IF i = 0 THEN SubSeq(rest, 3, Len(rest))
                              ELSE SubSeq(rest, 3, i - 1)
                 path == IF i = 0 THEN <<>> ELSE SubSeq(rest, i, Len(rest))
             IN  [err |-> FALSE, url |-> [NoURL EXCEPT !.Scheme = g.scheme,
                                                       !.Host = authority,
                                                       !.Path = path]]
        ELSE [err |-> FALSE, url |-> [NoURL EXCEPT !.Scheme = g.scheme,
                                                   !.Path = rest]]

----------------------------------------------------------------------------
(* Live requests and responses.  A string field holds <<>> or a tagged      *)
(* sample, a map, slice or pointer field holds an address of the heap       *)
(* ("nil" is nil), so that the fields of one value are told apart.          *)

Str(f, v) == IF v = 0 THEN <<>> ELSE <<f, v>>
Num(k, v) == IF v = 0 THEN 0 ELSE 10 * v + k

\* the addresses a live request's and a live response's fields point to
Addrs == { "req.Header", "req.TransferEncoding", "req.Form", "req.PostForm",
           "req.Trailer", "req.TLS", "resp.Header", "resp.TransferEncoding",
           "resp.Trailer", "resp.TLS" }

Ref(a, v) == IF v = 0 THEN "nil" ELSE a

\* &http.Request{...} with sample v in every field and URL u
LiveRequest(v, u) ==
    [nil |-> FALSE, Method |-> Str("Method", v), URL |-> u,
     Proto |-> Str("Proto", v), ProtoMajor |-> Num(1, v),
     ProtoMinor |-> Num(2, v), Header |-> Ref("req.Header", v),
     ContentLength |-> Num(3, v),
     TransferEncoding |-> Ref("req.TransferEncoding", v), Close |-> v # 0,
     Host |-> Str("Host", v), Form |-> Ref("req.Form", v),
     PostForm |-> Ref("req.PostForm", v), Trailer |-> Ref("req.Trailer", v),
     RemoteAddr |-> Str("RemoteAddr", v),
     RequestURI |-> Str("RequestURI", v), TLS |-> Ref("req.TLS", v)]

\* a nil *http.Request
NilRequest == [LiveRequest(0, NilURL) EXCEPT !.nil = TRUE]

\* &http.Response{...} with sample v in every field
LiveResponse(v) ==
    [nil |-> FALSE, Status |-> Str("Status", v), StatusCode |-> Num(4, v),
     Proto |-> Str("RespProto", v), ProtoMajor |-> Num(5, v),
     ProtoMinor |-> Num(6, v), Header |-> Ref("resp.Header", v),
     ContentLength |-> Num(7, v),
     TransferEncoding |-> Ref("resp.TransferEncoding", v), Close |-> v # 0,
     Trailer |-> Ref("resp.Trailer", v), TLS |-> Ref("resp.TLS", v)]

\* a nil *http.Response
NilResponse == [LiveResponse(0) EXCEPT !.nil = TRUE]

\* the URLs of live requests
LiveURLs ==
    { [NoURL EXCEPT !.Scheme = s, !.Opaque = o, !.Host = h, !.Path = q] :
        s \in {<<>>, <<"h">>}, o \in {<<>>, <<":", "/", "/">>},
        h \in {<<>>, <<"h">>}, q \in {<<>>, <<"/", "p">>} }

LiveRequests ==
    { LiveRequest(v, u) : v \in 0..MaxSample, u \in LiveURLs \cup {NilURL} }
      \cup {NilRequest}

LiveResponses == { LiveResponse(v) : v \in 0..MaxSample } \cup {NilResponse}

\* the non-nil live values the wrappers are called with, each with the
\* sample its fields hold
RequestSamples ==
    { <<LiveRequest(v, u), v>> : v \in 0..MaxSample,
                                 u \in LiveURLs \cup {NilURL} }

ResponseSamples == { <<LiveResponse(v), v>> : v \in 0..MaxSample }

----------------------------------------------------------------------------
(* type gobRequest, func newGobRequest, func newGobRequestVS *)

\* new(gobRequest)
ZeroGobRequest ==
    [nil |-> FALSE, Method |-> <<>>, URL |-> <<>>, Proto |-> <<>>,
     ProtoMajor |-> 0, ProtoMinor |-> 0, Header |-> "nil",
     ContentLength |-> 0, TransferEncoding |-> "nil", Close |-> FALSE,
     Host |-> <<>>, Form |-> "nil", PostForm |-> "nil", Trailer |-> "nil",
     RemoteAddr |-> <<>>, RequestURI |-> <<>>, TLS |-> "nil",
     Body |-> <<>>, Error |-> NilError]

\* a nil *gobRequest
NilGobRequest == [ZeroGobRequest EXCEPT !.nil = TRUE]

\* newGobRequestVS(req, r): r.TLS = req.TLS where the build has go1.3
newGobRequestVS(req, r, go13) ==
    IF go13 THEN [r EXCEPT !.TLS = req.TLS] ELSE r

\* the assignments r.Method = req.Method ... r.RequestURI = req.RequestURI
CopyRequestFields(req) ==
    [ZeroGobRequest EXCEPT
       !.Method = req.Method,
       !.URL = URLString(req.URL),
       !.Proto = req.Proto,
       !.ProtoMajor = req.ProtoMajor,
       !.ProtoMinor = req.ProtoMinor,
       !.Header = req.Header,
       !.ContentLength = req.ContentLength,
       !.TransferEncoding = req.TransferEncoding,
       !.Close = req.Close,
       !.Host = req.Host,
       !.Form = req.Form,
       !.PostForm = req.PostForm,
       !.Trailer = req.Trailer,
       !.RemoteAddr = req.RemoteAddr,
       !.RequestURI = req.RequestURI]

\* newGobRequest with r.PostForm = req.Form
newGobRequestWrongForm(req, go13) ==
    IF req.nil
    THEN [out |-> "return", r |-> NilGobRequest]
    ELSE IF req.URL.nil
    THEN [out |-> "panic", r |-> NilGobRequest]
    ELSE [out |-> "return",
          r |-> newGobRequestVS(req,
                  [CopyRequestFields(req) EXCEPT !.PostForm = req.Form],
                  go13)]

\* newGobRequest(req): req.URL.String() dereferences the URL
newGobRequestResult(req, go13) ==
    IF req.nil
    THEN [out |-> "return", r |-> NilGobRequest]
    ELSE IF req.URL.nil
    THEN [out |-> "panic", r |-> NilGobRequest]
    ELSE [out |-> "return",
          r |-> newGobRequestVS(req, CopyRequestFields(req), go13)]

----------------------------------------------------------------------------
(* type gobResponse, func newGobResponse, func newGobResponseVS *)

\* new(gobResponse)
ZeroGobResponse ==
    [nil |-> FALSE, Status |-> <<>>, StatusCode |-> 0, Proto |-> <<>>,
     ProtoMajor |-> 0, ProtoMinor |-> 0, Header |-> "nil",
     ContentLength |-> 0, TransferEncoding |-> "nil", Close |-> FALSE,
     Trailer |-> "nil", TLS |-> "nil", Body |-> <<>>, Error |-> NilError]

\* a nil *gobResponse
NilGobResponse == [ZeroGobResponse EXCEPT !.nil = TRUE]

\* newGobResponseVS(resp, r): r.TLS = resp.TLS where the build has go1.3
newGobResponseVS(resp, r, go13) ==
    IF go13 THEN [r EXCEPT !.TLS = resp.TLS] ELSE r

\* newGobResponse returning new(gobResponse) for a nil response
newGobResponseNeverNil(resp, go13) ==
    IF resp.nil
    THEN [out |-> "return", r |-> ZeroGobResponse]
    ELSE [out |-> "return",
          r |-> newGobResponseVS(resp,
                  [ZeroGobResponse EXCEPT
                     !.Status = resp.Status,
                     !.StatusCode = resp.StatusCode], go13)]

\* newGobResponse(resp)
newGobResponseResult(resp, go13) ==
    IF resp.nil
    THEN [out |-> "return", r |-> NilGobResponse]
    ELSE [out |-> "return",
          r |-> newGobResponseVS(resp,
                  [ZeroGobResponse EXCEPT
                     !.Status = resp.Status,
                     !.StatusCode = resp.StatusCode,
                     !.Proto = resp.Proto,
                     !.ProtoMajor = resp.ProtoMajor,
                     !.ProtoMinor = resp.ProtoMinor,
                     !.Header = resp.Header,
                     !.ContentLength = resp.ContentLength,
                     !.TransferEncoding = resp.TransferEncoding,
                     !.Close = resp.Close,
                     !.Trailer = resp.Trailer], go13)]

----------------------------------------------------------------------------
(* type gobQuery, func (g *gobQuery) RequestResponse, requestResponseVS *)

\* panicIfError(err): whether it panics (with a *dvrFailure)
panicIfError(err) == err

\* new(RequestResponse)
ZeroRequestResponse ==
    [Request |-> NilRequest, Response |-> NilResponse,
     RequestBody |-> <<>>, RequestBodyError |-> NilError,
     ResponseBody |-> <<>>, ResponseBodyError |-> NilError,
     Error |-> NilError]

\* the if g.Request != nil { ... } block, without the body
RequestOf(r) ==
    [LiveRequest(0, URLParse(r.URL).url) EXCEPT
       !.Method = r.Method, !.Proto = r.Proto,
       !.ProtoMajor = r.ProtoMajor, !.ProtoMinor = r.ProtoMinor,
       !.Header = r.Header, !.ContentLength = r.ContentLength,
       !.TransferEncoding = r.TransferEncoding, !.Close = r.Close,
       !.Host = r.Host, !.Form = r.Form, !.PostForm = r.PostForm,
       !.Trailer = r.Trailer, !.RemoteAddr = r.RemoteAddr,
       !.RequestURI = r.RequestURI]

\* the if g.Response != nil { ... } block, without the body
ResponseOf(r) ==
    [LiveResponse(0) EXCEPT
       !.Status = r.Status, !.StatusCode = r.StatusCode, !.Proto = r.Proto,
       !.ProtoMajor = r.ProtoMajor, !.ProtoMinor = r.ProtoMinor,
       !.Header = r.Header, !.ContentLength = r.ContentLength,
       !.TransferEncoding = r.TransferEncoding, !.Close = r.Close,
       !.Trailer = r.Trailer]

\* g.requestResponseVS(rr): the TLS fields, where the build has go1.3
requestResponseVS(g, res, go13) ==
    LET withReq == IF go13 /\ ~g.Request.nil /\ ~res.Request.nil
                   THEN [res EXCEPT !.Request.TLS = g.Request.TLS] ELSE res
    IN  IF go13 /\ ~g.Response.nil /\ ~withReq.Response.nil
        THEN [withReq EXCEPT !.Response.TLS = g.Response.TLS] ELSE withReq

\* RequestResponse with the error of url.Parse dropped
RequestResponseIgnoresParse(g, go13) ==
    [out |-> "return",
     rr |-> [ZeroRequestResponse EXCEPT
               !.Request = IF g.Request.nil THEN NilRequest
                           ELSE RequestOf(g.Request),
               !.Response = IF g.Response.nil THEN NilResponse
                            ELSE ResponseOf(g.Response),
               !.Error = g.Error]]

\* g.RequestResponse(): "panic" when panicIfError stops it, else the result
RequestResponseResult(g, go13) ==
    IF ~g.Request.nil /\ panicIfError(URLParse(g.Request.URL).err)
    THEN [out |-> "panic", rr |-> ZeroRequestResponse]
    ELSE LET withReq ==
                 IF g.Request.nil THEN ZeroRequestResponse
                 ELSE [ZeroRequestResponse EXCEPT
                         !.Request = RequestOf(g.Request),
                         !.RequestBody = g.Request.Body,
                         !.RequestBodyError = g.Request.Error]
             withResp ==
                 IF g.Response.nil THEN withReq
                 ELSE [withReq EXCEPT
                         !.Response = ResponseOf(g.Response),
                         !.ResponseBody = g.Response.Body,
                         !.ResponseBodyError = g.Response.Error]
         IN  [out |-> "return",
              rr |-> [requestResponseVS(g, withResp, go13)
                        EXCEPT !.Error = g.Error]]

----------------------------------------------------------------------------
(* The calls of the wrappers, for one recorded interaction: the live        *)
(* values are wrapped, the caller reads the bodies and fills Body and       *)
(* Error of the snapshots, builds the gobQuery, and reconstructs from it.   *)

NoQuery == [from |-> "none", Request |-> NilGobRequest,
            Response |-> NilGobResponse, Error |-> NilError]

NoResult == [out |-> "none", rr |-> ZeroRequestResponse]

\* what reading a body gives: the bytes and the error of the read
BodyReads == { [Body |-> <<>>, Error |-> NilError],
               [Body |-> <<"b">>, Error |-> errorsNew(MaxMsg)] }

\* the errors a round trip returns
RoundTripErrors == { NilError,
                     [typ |-> ProtocolError, shape |-> "ptr", msg |-> MaxMsg] }

\* the URL strings of snapshots built by hand, as the tests build them
QueryURLs == { <<":", "/", "/">>, <<>>, <<"h", ":", "/", "/", "h", "/", "p">>,
               <<":">> }

\* the live request req comes into being and newGobRequest(req) is called
NewGobRequest(req, v) ==
    LET r == newGobRequestResult(req, live.go13)
    IN  /\ gq.from = "none"
        /\ live' = [live EXCEPT !.req = req]
        /\ heap' = [a \in Addrs |->
                      IF a \in {"req.Header", "req.TransferEncoding",
                                "req.Form", "req.PostForm", "req.Trailer",
                                "req.TLS"}
                      THEN (IF req.nil THEN 0 ELSE v) ELSE heap[a]]
        /\ snap' = [snap EXCEPT !.req = r.r, !.reqOut = r.out]
        /\ gq' = NoQuery
        /\ rr' = NoResult
        /\ UNCHANGED codecVars

\* the live response resp comes into being and newGobResponse(resp) is called
NewGobResponse(resp, v) ==
    LET r == newGobResponseResult(resp, live.go13)
    IN  /\ gq.from = "none"
        /\ live' = [live EXCEPT !.resp = resp]
        /\ heap' = [a \in Addrs |->
                      IF a \in {"resp.Header", "resp.TransferEncoding",
                                "resp.Trailer", "resp.TLS"}
                      THEN (IF resp.nil THEN 0 ELSE v) ELSE heap[a]]
        /\ snap' = [snap EXCEPT !.resp = r.r, !.respOut = r.out]
        /\ gq' = NoQuery
        /\ rr' = NoResult
        /\ UNCHANGED codecVars

\* &gobQuery{Request: ..., Response: ..., Error: ...} from the snapshots
\* the wrappers returned, with the bodies the caller read
MakeQuery(reqRead, respRead, err) ==
    /\ gq.from = "none"
    /\ snap.reqOut = "return"
    /\ snap.respOut = "return"
    /\ gq' = [from |-> "snap",
              Request |-> IF snap.req.nil THEN snap.req
                          ELSE [snap.req EXCEPT !.Body = reqRead.Body,
                                                !.Error = reqRead.Error],
              Response |-> IF snap.resp.nil THEN snap.resp
                           ELSE [snap.resp EXCEPT !.Body = respRead.Body,
                                                  !.Error = respRead.Error],
              Error |-> err]
    /\ rr' = NoResult
    /\ UNCHANGED <<live, snap, heap, codecVars>>

\* gq := &gobQuery{Request: new(gobRequest)}; gq.Request.URL = u
HandQuery(u, withResp, err) ==
    /\ gq.from = "none"
    /\ gq' = [from |-> "hand",
              Request |-> [ZeroGobRequest EXCEPT !.URL = u],
              Response |-> IF withResp THEN ZeroGobResponse
                           ELSE NilGobResponse,
              Error |-> err]
    /\ rr' = NoResult
    /\ UNCHANGED <<live, snap, heap, codecVars>>

\* gq.RequestResponse()
RequestResponse ==
    /\ gq.from # "none"
    /\ rr.out = "none"
    /\ rr' = RequestResponseResult(gq, live.go13)
    /\ UNCHANGED <<live, snap, gq, heap, codecVars>>

QueryInit(builds) ==
    /\ live \in { [req |-> NilRequest, resp |-> NilResponse, go13 |-> b] :
                    b \in builds }
    /\ snap = [req |-> NilGobRequest, reqOut |-> "none",
               resp |-> NilGobResponse, respOut |-> "none"]
    /\ gq = NoQuery
    /\ rr = NoResult
    /\ heap = [a \in Addrs |-> 0]

----------------------------------------------------------------------------
(* Specifications *)

\* one process: registration, and GobEncode followed by GobDecode
Init == CodecInit /\ QueryInit({TRUE})

Next ==
    \/ \E err \in Errors : RegisterErrorType(err)
    \/ \E e \in Errors : GobEncode(e)
    \/ \E before \in Befores : GobDecode(before)

Spec == Init /\ [][Next]_vars

\* one process: registration, and GobDecode of arbitrary bytes
WireTypes == { gobSafeError, customError, PublicKey }

WireMessages ==
    { TypeDef, Junk, ValueMsg(<<>>, 0, FALSE), ValueMsg(<<>>, 0, TRUE) }
      \cup { ValueMsg(GobName(t), MaxMsg, f) : t \in WireTypes, f \in BOOLEAN }

Streams == UNION { [1..n -> WireMessages] : n \in 1..MaxStream }

\* the registrations come first (in init functions), then the bytes
GobDecodeBytes(before, data) ==
    /\ call.op # "decode"
    /\ Decode("decode", gobTypes, before, data)

NextDecode ==
    \/ \E err \in Errors : call.op # "decode" /\ RegisterErrorType(err)
    \/ \E before \in Befores, data \in Streams : GobDecodeBytes(before, data)

SpecDecode == Init /\ [][NextDecode]_vars

\* two processes: each registers what it likes, one encodes, the other decodes
PeerRegisterErrorType(err) ==
    LET r == RegisterErrorTypeResult(peerEncodable, peerGob, err)
    IN  /\ peerEncodable' = r.enc
        /\ peerGob' = r.gob
        /\ call' = [NoCall EXCEPT !.op = "peerregister", !.out = r.out]
        /\ UNCHANGED <<encodableTypes, gobTypes, sent, queryVars>>

PeerGobDecode(before) ==
    /\ sent.out \in {"ok", "error"}
    /\ Decode("peerdecode", peerGob, before, sent.bytes)

\* both processes register in their init functions, before either encodes
NextCross ==
    \/ \E err \in Errors : sent.out = "none" /\ RegisterErrorType(err)
    \/ \E err \in Errors : sent.out = "none" /\ PeerRegisterErrorType(err)
    \/ \E e \in Errors : GobEncode(e)
    \/ \E before \in Befores : PeerGobDecode(before)

SpecCross == Init /\ [][NextCross]_vars

\* the wrappers: snapshots of live values, queries, reconstruction
InitQuery == CodecInit /\ QueryInit(BOOLEAN)

NextQuery ==
    \/ \E s \in RequestSamples : NewGobRequest(s[1], s[2])
    \/ NewGobRequest(NilRequest, 0)
    \/ \E s \in ResponseSamples : NewGobResponse(s[1], s[2])
    \/ NewGobResponse(NilResponse, 0)
    \/ \E a \in BodyReads, b \in BodyReads, err \in RoundTripErrors :
         MakeQuery(a, b, err)
    \/ \E u \in QueryURLs, withResp \in BOOLEAN, err \in RoundTripErrors :
         HandQuery(u, withResp, err)
    \/ RequestResponse

SpecQuery == InitQuery /\ [][NextQuery]_vars

\* the wrappers, with a caller that goes on using the live values: the maps,
\* slices and TLS states that "r.Header = req.Header" and the like share
\* between a live value, its snapshot and the reconstructed value

\* how many of the shared objects a behaviour writes to
MaxMutations == 1

\* the contents of a shared object after a write in place (a key added to
\* a map, an element of a slice overwritten, a field of the TLS state set)
Mutated(c) == c + MaxSample + 1

\* the objects a request (a response) points to
RequestRefs(r) ==
    {r.Header, r.TransferEncoding, r.Form, r.PostForm, r.Trailer, r.TLS}
      \ {"nil"}

ResponseRefs(r) == {r.Header, r.TransferEncoding, r.Trailer, r.TLS} \ {"nil"}

\* the objects reached from the live values a snapshot was built from
LiveRefs ==
    (IF snap.reqOut = "return" THEN RequestRefs(live.req) ELSE {})
      \cup (IF snap.respOut = "return" THEN ResponseRefs(live.resp) ELSE {})

\* the objects reached from the values RequestResponse returned
ResultRefs ==
    IF rr.out = "return"
    THEN RequestRefs(rr.rr.Request) \cup ResponseRefs(rr.rr.Response)
    ELSE {}

WriteInPlace(a) ==
    /\ heap[a] <= MaxSample
    /\ Cardinality({b \in Addrs : heap[b] > MaxSample}) < MaxMutations
    /\ heap' = [heap EXCEPT ![a] = Mutated(@)]
    /\ UNCHANGED <<live, snap, gq, rr, codecVars>>

\* e.g. req.Header.Add(k, v) on the live request, after newGobRequest(req)
MutateLive(a) == a \in LiveRefs /\ WriteInPlace(a)

\* e.g. rr.Request.Header.Add(k, v) on the result of RequestResponse
MutateResult(a) == a \in ResultRefs /\ WriteInPlace(a)

\* the value of req.Host after the caller's req.Host = "..."
ReassignedHost == Str("Host", MaxSample + 1)

\* req.Host = "...": an assignment to a field of the live request
AssignLive ==
    /\ snap.reqOut = "return"
    /\ ~live.req.nil
    /\ live.req.Host # ReassignedHost
    /\ live' = [live EXCEPT !.req.Host = ReassignedHost]
    /\ UNCHANGED <<snap, gq, rr, heap, codecVars>>

NextAlias ==
    \/ NextQuery
    \/ \E a \in Addrs : MutateLive(a)
    \/ \E a \in Addrs : MutateResult(a)
    \/ AssignLive

SpecAlias == InitQuery /\ [][NextAlias]_vars

----------------------------------------------------------------------------
(* Properties of the error codec *)

\* the flag ErrorsErrorString of the envelope the last GobEncode wrote
SentFlag == sent.bytes[2].flag

\* the last call decoded the bytes of the last GobEncode
Decoded == call.op = "decode" /\ call.data = sent.bytes

\* C1: every non-nil value e of a type in the registry, held by pointer or
\* by value, whatever sample registered the type: GobEncode succeeds,
\* GobDecode of the bytes succeeds and yields an error of the same type and
\* shape as e with the same message.
C1_RoundTripRegistered ==
    (sent.err \in LiveErrors /\ sent.known) =>
        /\ sent.out = "ok"
        /\ Decoded => (call.out = "ok" /\ call.after = sent.err)

\* C2: every non-nil value e of a type whose id is not in the registry when
\* it is encoded, errors.errorString aside: GobEncode succeeds, GobDecode of
\* the bytes succeeds, the decoded message is e's, and the decoded type is
\* gobSafeError and not e's type.
C2_RoundTripUnregistered ==
    (sent.err \in LiveErrors /\ ~sent.known /\ sent.err.typ # errorString) =>
        /\ sent.out = "ok"
        /\ Decoded => /\ call.out = "ok"
                      /\ call.after.msg = sent.err.msg
                      /\ call.after.typ = gobSafeError
                      /\ call.after.typ # sent.err.typ

\* an unregistered customError went through GobEncode and GobDecode
C2_Witness ==
    /\ Decoded
    /\ sent.err = [typ |-> customError, shape |-> "val", msg |-> MaxMsg]
    /\ ~sent.known
    /\ call.out = "ok"
    /\ call.after = [typ |-> gobSafeError, shape |-> "ptr", msg |-> MaxMsg]

\* C3: encoding errors.New(m) sets ErrorsErrorString and decoding the bytes
\* yields an errors.errorString with message m, for every m; the flag is
\* set for no error of another type.
C3_RoundTripBareString ==
    /\ (sent.err \in LiveErrors /\ sent.err.typ = errorString) =>
          /\ sent.out = "ok"
          /\ SentFlag
          /\ Decoded => (call.out = "ok" /\ call.after = errorsNew(sent.err.msg))
    /\ (sent.err \in LiveErrors /\ sent.err.typ # errorString
          /\ sent.out = "ok") => ~SentFlag

\* C4: GobEncode of a nil Error returns no bytes and no error; GobDecode of
\* no bytes sets Error to nil and returns no error without running the gob
\* decoder, whatever Error held; GobEncode of a non-nil Error never returns
\* a zero-length sequence.
C4_RoundTripAbsent ==
    /\ (call.op = "encode" /\ call.arg = NilError) =>
          (call.out = "ok" /\ call.data = <<>>)
    /\ (call.op = "decode" /\ call.data = <<>>) =>
          (call.out = "ok" /\ call.after = NilError /\ ~call.ran)
    /\ (call.op = "encode" /\ call.arg # NilError /\ call.out # "panic") =>
          call.data # <<>>

\* a receiver holding an error decoded the bytes of an encoded nil Error
C4_Witness ==
    /\ Decoded
    /\ sent.err = NilError
    /\ sent.out = "ok"
    /\ call.data = <<>>
    /\ call.before # NilError
    /\ call.after = NilError

\* C5: GobDecode of a non-empty byte sequence never panics; bytes that are
\* no valid envelope give a decode error and leave Error as it was, and
\* never a success with a nil Error.  (Checked under SpecDecode.)
C5_MalformedRejected ==
    (call.op = "decode" /\ call.data # <<>>) =>
        /\ call.out # "panic"
        /\ DecoderDecode(gobTypes, call.data).err =>
              (call.out = "error" /\ call.after = call.before)

\* C10: RegisterErrorType returns without panicking for every error value,
\* the nil interface and a nil pointer included, and the id of the value's
\* type is in the registry afterwards.
C10_RegistrationNeverFails ==
    call.op = "register" =>
        /\ call.out = "ok"
        /\ call.arg # NilError => call.arg.typ \in encodableTypes

----------------------------------------------------------------------------
(* Properties of two processes (checked under SpecCross) *)

PeerDecoded == call.op = "peerdecode" /\ call.data = sent.bytes

----------------------------------------------------------------------------
(* Properties of the wrappers (checked under SpecQuery) *)

\* a URL string url.Parse rejects: over these characters, one that starts
\* with a colon ("missing protocol scheme")
Unparsable(str) == str # <<>> /\ str[1] = ":"

\* RequestResponse returned a result that mirrors the query it was built from
Assembled ==
    /\ rr.out = "return"
    /\ rr.rr.Request.nil = gq.Request.nil
    /\ rr.rr.Response.nil = gq.Response.nil
    /\ rr.rr.Error = gq.Error
    /\ ~gq.Request.nil =>
          /\ ~rr.rr.Request.URL.nil
          /\ URLString(rr.rr.Request.URL) = gq.Request.URL
          /\ rr.rr.RequestBody = gq.Request.Body
          /\ rr.rr.RequestBodyError = gq.Request.Error
    /\ ~gq.Response.nil =>
          /\ rr.rr.ResponseBody = gq.Response.Body
          /\ rr.rr.ResponseBodyError = gq.Response.Error

\* C6: a gobQuery whose Request is present with a URL string that does not
\* parse makes RequestResponse panic and return nothing, whatever Response
\* and Error are; every other gobQuery gives a fully assembled result.
C6_FatalURLAllOrNothing ==
    rr.out # "none" =>
        IF ~gq.Request.nil /\ Unparsable(gq.Request.URL)
        THEN rr.out = "panic" /\ rr.rr = ZeroRequestResponse
        ELSE Assembled

\* a query with a Response, an Error and the URL "://" made it panic
C6_Witness ==
    /\ rr.out = "panic"
    /\ gq.Request.URL = <<":", "/", "/">>
    /\ ~gq.Response.nil
    /\ gq.Error # NilError

\* the fields of the live request a that newGobRequest copies, against b
SameRequestFields(a, b) ==
    /\ a.Method = b.Method
    /\ a.Proto = b.Proto
    /\ a.ProtoMajor = b.ProtoMajor
    /\ a.ProtoMinor = b.ProtoMinor
    /\ a.Header = b.Header
    /\ a.ContentLength = b.ContentLength
    /\ a.TransferEncoding = b.TransferEncoding
    /\ a.Close = b.Close
    /\ a.Host = b.Host
    /\ a.Form = b.Form
    /\ a.PostForm = b.PostForm
    /\ a.Trailer = b.Trailer
    /\ a.RemoteAddr = b.RemoteAddr
    /\ a.RequestURI = b.RequestURI

SameResponseFields(a, b) ==
    /\ a.Status = b.Status
    /\ a.StatusCode = b.StatusCode
    /\ a.Proto = b.Proto
    /\ a.ProtoMajor = b.ProtoMajor
    /\ a.ProtoMinor = b.ProtoMinor
    /\ a.Header = b.Header
    /\ a.ContentLength = b.ContentLength
    /\ a.TransferEncoding = b.TransferEncoding
    /\ a.Close = b.Close
    /\ a.Trailer = b.Trailer

\* the result carries the live request and response the query's snapshots
\* were taken from, field by field, and the bodies the caller put in
FieldComplete ==
    /\ rr.out = "return"
    /\ ~live.req.nil =>
          /\ ~rr.rr.Request.nil
          /\ SameRequestFields(rr.rr.Request, live.req)
          /\ rr.rr.Request.URL = URLParse(URLString(live.req.URL)).url
          /\ live.go13 => rr.rr.Request.TLS = live.req.TLS
          /\ rr.rr.RequestBody = gq.Request.Body
          /\ rr.rr.RequestBodyError = gq.Request.Error
    /\ ~live.resp.nil =>
          /\ ~rr.rr.Response.nil
          /\ SameResponseFields(rr.rr.Response, live.resp)
          /\ live.go13 => rr.rr.Response.TLS = live.resp.TLS
          /\ rr.rr.ResponseBody = gq.Response.Body
          /\ rr.rr.ResponseBodyError = gq.Response.Error

\* C8: for every live request with a non-nil URL (and every live response),
\* newGobRequest, a gobQuery and RequestResponse give back a live request
\* (and response) with every copied field equal to the original's, the URL
\* equal to the original after String and Parse, and the bodies unchanged.
C8_FieldComplete ==
    (gq.from = "snap" /\ rr.out # "none") => FieldComplete

\* C8 as amended: the same, for every live request whose URL has a string
\* form that url.Parse accepts.
C8_FieldCompleteAmended ==
    (/\ gq.from = "snap"
     /\ rr.out # "none"
     /\ ~(~live.req.nil /\ Unparsable(URLString(live.req.URL))))
        => FieldComplete

\* a fully populated request and response came back from a query
C8_Witness ==
    /\ gq.from = "snap"
    /\ rr.out = "return"
    /\ live.go13
    /\ live.req = LiveRequest(MaxSample,
                    [NoURL EXCEPT !.Scheme = <<"h">>, !.Host = <<"h">>,
                                  !.Path = <<"/", "p">>])
    /\ live.resp = LiveResponse(MaxSample)
    /\ rr.rr.Request = live.req
    /\ rr.rr.RequestBody = <<"b">>
    /\ rr.rr.ResponseBodyError # NilError

\* what RequestResponse returns has a Request and a Response exactly when
\* the query has them, and the query's Error
Passthrough ==
    rr.out = "return" =>
        /\ rr.rr.Request.nil = gq.Request.nil
        /\ rr.rr.Response.nil = gq.Response.nil
        /\ rr.rr.Error = gq.Error

\* C9: newGobRequest(nil) and newGobResponse(nil) return nil, without a
\* panic; a non-nil live value always yields a non-nil snapshot; the result
\* of RequestResponse has a Request (a Response) exactly when the query has
\* one, and the query's Error.
C9_NilPassthrough ==
    /\ snap.reqOut # "none" =>
          (snap.reqOut = "return" /\ snap.req.nil = live.req.nil)
    /\ snap.respOut # "none" =>
          (snap.respOut = "return" /\ snap.resp.nil = live.resp.nil)
    /\ Passthrough

\* C9 as amended: a non-nil live request yields a non-nil snapshot when its
\* URL is not nil, and newGobRequest panics when it is.
C9_NilPassthroughAmended ==
    /\ snap.reqOut # "none" =>
          IF ~live.req.nil /\ live.req.URL.nil
          THEN snap.reqOut = "panic"
          ELSE snap.reqOut = "return" /\ snap.req.nil = live.req.nil
    /\ snap.respOut # "none" =>
          (snap.respOut = "return" /\ snap.resp.nil = live.resp.nil)
    /\ Passthrough

\* a nil request and a live response went through the wrappers, a query
\* with an Error, and RequestResponse
C9_Witness ==
    /\ gq.from = "snap"
    /\ rr.out = "return"
    /\ snap.reqOut = "return"
    /\ live.req.nil /\ snap.req.nil /\ rr.rr.Request.nil
    /\ ~live.resp.nil /\ ~snap.resp.nil /\ ~rr.rr.Response.nil
    /\ rr.rr.Error # NilError

----------------------------------------------------------------------------
(* Properties of the registry (checked under Spec) *)

\* what every later GobEncode and GobDecode returns, as a function of the
\* registry and of gob's table
LaterResults(enc, gob) ==
    [encode |-> [e \in Errors |-> GobEncodeResult(enc, gob, e)],
     decode |-> [data \in Streams |-> GobDecodeResult(gob, NilError, data)]]

\* C11: a step of the program never takes an id out of the registry, the
\* ids init registered included; GobEncode and GobDecode leave the registry
\* as it is; RegisterErrorType of a type whose id is in the registry
\* already leaves the registry and the results of every later GobEncode and
\* GobDecode as they were.
C11_RegistryAppendOnly ==
    [][/\ encodableTypes \subseteq encodableTypes'
       /\ InitErrorTypes \subseteq encodableTypes'
       /\ call'.op \in {"encode", "decode"} =>
             encodableTypes' = encodableTypes
       /\ (/\ call'.op = "register"
           /\ WalkIsValid(call'.arg)
           /\ TypeId(call'.arg) \in encodableTypes) =>
             /\ encodableTypes' = encodableTypes
             /\ LaterResults(encodableTypes', gobTypes')
                  = LaterResults(encodableTypes, gobTypes)]_vars

\* the payload of the envelope the last GobEncode wrote
SentPayload == call.data[2]

\* C12: GobEncode of a non-nil Error, whatever its type and however the
\* type was registered, a nil pointer included, returns without panic and
\* without error an envelope whose payload is the value itself, of a type
\* in the registry, or a gobSafeError with the value's message.
C12_EncodeNeverFailsOnType ==
    (call.op = "encode" /\ call.arg # NilError) =>
        /\ call.out = "ok"
        /\ Len(call.data) = 2
        /\ SentPayload.k = "value"
        /\ SentPayload.msg = call.arg.msg
        /\ \/ /\ SentPayload.name = GobName(call.arg.typ)
              /\ call.arg.typ \in encodableTypes
           \/ SentPayload.name = GobName(gobSafeError)

----------------------------------------------------------------------------
(* Properties of shared storage (checked under SpecAlias) *)

\* what is read through a reference in the heap h
Content(h, ref) == IF ref = "nil" THEN 0 ELSE h[ref]

\* a request (snapshot or live) with what its fields point to, in heap h
DeepRequest(h, r) ==
    [r EXCEPT !.Header = Content(h, r.Header),
              !.TransferEncoding = Content(h, r.TransferEncoding),
              !.Form = Content(h, r.Form),
              !.PostForm = Content(h, r.PostForm),
              !.Trailer = Content(h, r.Trailer),
              !.TLS = Content(h, r.TLS)]

DeepResponse(h, r) ==
    [r EXCEPT !.Header = Content(h, r.Header),
              !.TransferEncoding = Content(h, r.TransferEncoding),
              !.Trailer = Content(h, r.Trailer),
              !.TLS = Content(h, r.TLS)]

\* what a caller of g.RequestResponse() finds in the result, in heap h
DeepResult(h, g, go13) ==
    LET res == RequestResponseResult(g, go13)
    IN  [res EXCEPT !.rr.Request = DeepRequest(h, res.rr.Request),
                    !.rr.Response = DeepResponse(h, res.rr.Response)]

\* C13: once newGobRequest or newGobResponse has returned a snapshot, a
\* write to the live value it was built from, or to a live value that
\* RequestResponse produced from it, changes no field of the snapshot, and
\* RequestResponse of the same gobQuery gives equal results before and
\* after the write.
C13_SnapshotsImmutable ==
    [][(/\ snap' = snap
        /\ gq' = gq
        /\ (heap' # heap \/ live'.req.Host = ReassignedHost)) =>
          /\ snap.reqOut = "return" =>
                DeepRequest(heap', snap.req) = DeepRequest(heap, snap.req)
          /\ snap.respOut = "return" =>
                DeepResponse(heap', snap.resp) = DeepResponse(heap, snap.resp)
          /\ gq.from # "none" =>
                /\ DeepRequest(heap', gq.Request)
                     = DeepRequest(heap, gq.Request)
                /\ DeepResponse(heap', gq.Response)
                     = DeepResponse(heap, gq.Response)
                /\ DeepResult(heap', gq, live.go13)
                     = DeepResult(heap, gq, live.go13)]_vars

====
